---- MODULE Spec2Model ----
(***************************************************************************)
(* Real-time face captioning: the face-tracking / active-speaker /         *)
(* overlay pipeline of FaceMeshView (src/src/App.tsx, second half) and the *)
(* React state that App (first half) threads through it.                   *)
(*                                                                         *)
(* Units: landmark coordinates and openness are in thousandths of the      *)
(* detector's normalized unit, so the threshold 0.003 is 3.  Time is in    *)
(* milliseconds, as Date.now() gives it.  The JavaScript value null of an  *)
(* id is Null; an absent key of the openness map is a key outside DOMAIN.  *)
(***************************************************************************)
EXTENDS Integers, Sequences, FiniteSets, TLC

\* ---------------------------------------------------------------- constants

\* App.tsx:145  const MOUTH_MOVEMENT_THRESHOLD = 0.003 (thousandths)
MOUTH_MOVEMENT_THRESHOLD == 3

\* App.tsx:146  const MOUTH_MOVEMENT_TIMEOUT = 1500 (ms)
MOUTH_MOVEMENT_TIMEOUT == 1500

\* App.tsx:437  setOptions({ maxNumFaces: 4, ... }): the detector delivers at
\* most this many landmark sets per callback.
maxNumFaces == 4

\* The value null of activeFaceId / speakingFaceId.
Null == -1

\* App.tsx:277 and 279: the paired lip landmark indices.
upperLipPoints == <<0, 13, 14, 17, 37, 39, 40, 61, 185, 267, 269, 270, 409>>
lowerLipPoints == <<14, 17, 84, 87, 91, 146, 181, 306, 308, 324, 375, 402, 405>>

\* ------------------------------------------------------------------- bounds

\* Faces per callback in the model (never above maxNumFaces).
MaxFaces == 2

\* The clock stops the model here (ms).
MaxNow == 2000

\* The time from one detector callback to the next when frames keep coming (ms).
ShortGap == 500

\* The longest time one synchronous pass of onResults takes between its
\* Date.now() reads (ms).
MaxPassMs == 1

\* The longest text wrapText is called with on its own (characters).
MaxTextLen == 5
MaxRecognizers == 2
MaxAttempts == 3

\* App.tsx:190-191  videoWidth: 640, videoHeight: 480 (not on a mobile): the
\* size asked of the webcam, which its video has, and the canvas's size (px).
videoWidth == 640
videoHeight == 480

\* ------------------------------------------------------------------- state

VARIABLES
    now,                    \* the clock: Date.now() at the last callback's start
    caption,                \* App: useState caption
    faceMeshCaption,        \* App: useState faceMeshCaption, FaceMeshView's caption prop
    activeFaceId,           \* App: useState activeFaceId, FaceMeshView's activeFaceId prop
    latestCaptionRef,       \* FaceMeshView: latestCaptionRef.current
    activeFaceIdRef,        \* FaceMeshView: activeFaceIdRef.current
    previousMouthOpenness,  \* FaceMeshView: previousMouthOpennessRef.current
    faces,                  \* FaceMeshView: useState faces (setFaces(updatedFaces))
    facesRef,               \* FaceMeshView: facesRef.current
    results,                \* the last callback's argument
    speakingFaceId,         \* the last callback's speakingFaceId
    notified,               \* the onActiveFaceChange calls of the last callback
    rendered,               \* the FaceMeshRenderer calls of the last callback
    canvas,                 \* FaceMeshView: canvasRef.current and its 2-D context
    callOrder,              \* the calls of the last callback, in the order made
    wrapCall,               \* a call of wrapText: its arguments and what it returned
    SpeechRecognition,      \* CaptionOverlay: whether the browser has the constructor
    isSpeechApiSupported,   \* CaptionOverlay: useState isSpeechApiSupported
    isListening,            \* CaptionOverlay: useState isListening
    error,                  \* CaptionOverlay: useState error (<<>> for null)
    recognizers,            \* the recognizers created; recognitionRef.current is the last
    speechEvent,            \* the last event a recognizer delivered (seq: the parity
                            \* of the number of events so far)
    showPermissionRequest,  \* FaceMeshView: useState showPermissionRequest
    isLoading,              \* FaceMeshView: useState isLoading
    cameraReady,            \* FaceMeshView: useState cameraReady
    lastError,              \* FaceMeshView: useState lastError (<<>> for null)
    isRunning,              \* FaceMeshView: useState isRunning
    cdnAvailable,           \* FaceMeshView: useState cdnAvailable
    webcam,                 \* the Webcam element: unmounted, or how its camera request went
    attempts,               \* the startFaceMesh calls that passed the guard: how each
                            \* went, and whether its FaceMesh and Camera were stopped
    cameraRef,              \* cameraRef.current and faceMeshRef.current: the attempt
                            \* that created them (0 for null)
    retryTimers,            \* the pending setTimeout(startFaceMesh, 500) calls: what
                            \* each startFaceMesh closed over
    startEffectDeps         \* the dependencies the start effect last ran with

vars == <<now, caption, faceMeshCaption, activeFaceId, latestCaptionRef,
          activeFaceIdRef, previousMouthOpenness, faces, facesRef, results,
          speakingFaceId, notified, rendered, canvas, callOrder, wrapCall,
          SpeechRecognition, isSpeechApiSupported, isListening, error, recognizers,
          speechEvent, showPermissionRequest, isLoading, cameraReady, lastError,
          isRunning, cdnAvailable, webcam, attempts, cameraRef, retryTimers,
          startEffectDeps>>

Min(a, b) == IF a < b THEN a ELSE b

Abs(x) == IF x < 0 THEN -x ELSE x

\* Math.sqrt on the integer grid: the largest r with r*r <= n.
Sqrt(n) == CHOOSE r \in 0..n : r * r <= n /\ (r + 1) * (r + 1) > n

\* ------------------------------------------------------ landmark sets (input)

Point(x, y, z) == [x |-> x, y |-> y, z |-> z]

\* A landmark set is a function from landmark indices to points; an index the
\* detector did not deliver is outside its DOMAIN (landmarks[i] undefined).
\* FaceWithMouth(g): forehead anchor 10 and the lip pair (13, 17), the lower
\* lip g thousandths below the upper one.
FaceWithMouth(g) ==
    (10 :> Point(500, 200, 0)) @@ (13 :> Point(500, 600, 0))
        @@ (17 :> Point(500, 600 + g, 0))

\* A face in the left half of the frame, its lips 5 apart.
FaceOffCentre ==
    (10 :> Point(250, 200, 0)) @@ (13 :> Point(250, 600, 0)) @@ (17 :> Point(250, 605, 0))

\* A landmark set without the forehead anchor: the lip pair only, closed.
FaceWithoutForehead ==
    (13 :> Point(500, 600, 0)) @@ (17 :> Point(500, 600, 0))

\* The lip gaps the model's detector delivers: closed (0), and two open ones
\* exactly the movement threshold apart; from either to closed is above it.
LipGaps == {0, 5, 8}

FaceLandmarkSets == {FaceWithMouth(g) : g \in LipGaps}

\* Sequences of at most n elements of S.
SeqUpTo(S, n) == UNION {[1..k -> S] : k \in 0..n}

\* The argument of a detector callback: with multiFaceLandmarks (a list of at
\* most n landmark sets out of S), or without the field.
ResultsWithFaces(S, n) ==
    {[image |-> "frame", multiFaceLandmarks |-> l] : l \in SeqUpTo(S, n)}

ResultsWithoutFaces == {[image |-> "frame"]}

\* Callbacks with at most MaxFaces faces, of any lip gap.
DetectorResults ==
    ResultsWithFaces(FaceLandmarkSets, Min(MaxFaces, maxNumFaces)) \cup ResultsWithoutFaces

\* Callbacks with as many faces as the detector's maxNumFaces allows, the
\* mouths open by one of two gaps.
CrowdResults ==
    ResultsWithFaces({FaceWithMouth(5), FaceWithMouth(8)}, maxNumFaces)
        \cup ResultsWithoutFaces

\* Callbacks with at most one face.
SoloResults ==
    ResultsWithFaces({FaceWithMouth(5)}, Min(1, maxNumFaces)) \cup ResultsWithoutFaces

\* Callbacks with at most MaxFaces faces, the mouths closed or wide open.
PairResults ==
    ResultsWithFaces({FaceWithMouth(0), FaceWithMouth(8)}, Min(MaxFaces, maxNumFaces))
        \cup ResultsWithoutFaces

\* Callbacks with at most MaxFaces faces, with and without the forehead anchor.
RenderResults ==
    ResultsWithFaces({FaceOffCentre, FaceWithoutForehead},
                     Min(MaxFaces, maxNumFaces))
        \cup ResultsWithoutFaces

\* Landmark sets for the mouth analysis, each with the forehead anchor: no lip
\* landmark; the upper lip 13 without its partner 17; the pair (13, 17) 7
\* apart in three dimensions; the pairs (0, 14) and (13, 17) 4 and 6 apart
\* (14 and 17 are upper landmarks too, of pairs whose lower landmarks 84 and
\* 87 are missing); and the same two pairs with coinciding landmarks.
MouthLandmarkSets ==
    {(10 :> Point(500, 200, 0)),
     (10 :> Point(500, 200, 0)) @@ (13 :> Point(500, 600, 0)),
     (10 :> Point(500, 200, 0)) @@ (13 :> Point(500, 600, 0)) @@ (17 :> Point(502, 603, 6)),
     (10 :> Point(500, 200, 0)) @@ (0 :> Point(500, 598, 0)) @@ (14 :> Point(500, 602, 0))
         @@ (13 :> Point(500, 597, 0)) @@ (17 :> Point(500, 603, 0)),
     (10 :> Point(500, 200, 0)) @@ (0 :> Point(500, 600, 0)) @@ (14 :> Point(500, 600, 0))
         @@ (13 :> Point(500, 601, 0)) @@ (17 :> Point(500, 601, 0))}

\* Callbacks with at most one face, of those landmark sets.
MouthResults ==
    ResultsWithFaces(MouthLandmarkSets, Min(1, maxNumFaces)) \cup ResultsWithoutFaces

\* results.multiFaceLandmarks is truthy (an array, even an empty one, is).
hasMultiFaceLandmarks(res) == "multiFaceLandmarks" \in DOMAIN res

\* ------------------------------------------------------------ mouth analysis

calculateDistance(landmark1, landmark2) ==
    LET dx == landmark1.x - landmark2.x
        dy == landmark1.y - landmark2.y
        dz == landmark1.z - landmark2.z
    IN  Sqrt(dx * dx + dy * dy + dz * dz)

\* The indices i of the pairs both of whose landmarks exist.
presentPairs(landmarks) ==
    {i \in 1..Min(Len(upperLipPoints), Len(lowerLipPoints)) :
        upperLipPoints[i] \in DOMAIN landmarks /\ lowerLipPoints[i] \in DOMAIN landmarks}

RECURSIVE SumDistances(_, _)
SumDistances(landmarks, pairs) ==
    IF pairs = {} THEN 0
    ELSE LET i == CHOOSE j \in pairs : TRUE
         IN  calculateDistance(landmarks[upperLipPoints[i]], landmarks[lowerLipPoints[i]])
                 + SumDistances(landmarks, pairs \ {i})

\* calculateMouthOpenness dividing by the number of configured pairs.
calculateMouthOpennessOverAll(landmarks) ==
    SumDistances(landmarks, presentPairs(landmarks)) \div Len(upperLipPoints)

\* totalDistance / pairsCount, on the integer grid of thousandths (the
\* distances and the quotient are exact for the landmark sets of the model).
calculateMouthOpenness(landmarks) ==
    LET pairs == presentPairs(landmarks)
        totalDistance == SumDistances(landmarks, pairs)
        pairsCount == Cardinality(pairs)
    IN  IF pairsCount > 0 THEN totalDistance \div pairsCount ELSE 0

\* previousOpennessOr defaulting to 0 instead of the current openness.
previousOpennessOrZero(prev, faceId, currentOpenness) ==
    IF faceId \in DOMAIN prev THEN prev[faceId] ELSE 0

\* App.tsx:301  previousMouthOpennessRef.current[faceId] || currentOpenness:
\* JavaScript's || takes the right side when the left is undefined or 0.
previousOpennessOr(prev, faceId, currentOpenness) ==
    IF faceId \in DOMAIN prev /\ prev[faceId] # 0 THEN prev[faceId] ELSE currentOpenness

\* App.tsx:310  difference > MOUTH_MOVEMENT_THRESHOLD
exceedsThreshold(difference) == difference > MOUTH_MOVEMENT_THRESHOLD

\* storeOpenness replacing the map by the one entry.
storeOpennessOnly(prev, faceId, currentOpenness) ==
    [k \in {faceId} |-> currentOpenness]

\* App.tsx:307  previousMouthOpennessRef.current[faceId] = currentOpenness
storeOpenness(prev, faceId, currentOpenness) ==
    [k \in DOMAIN prev \cup {faceId} |->
        IF k = faceId THEN currentOpenness ELSE prev[k]]

\* detectMouthMovement on the openness map prev: the value returned and the
\* map it leaves.
detectMouthMovement(prev, faceId, currentOpenness) ==
    LET previousOpenness == previousOpennessOr(prev, faceId, currentOpenness)
        difference == Abs(currentOpenness - previousOpenness)
    IN  [ret |-> exceedsThreshold(difference),
         prev |-> storeOpenness(prev, faceId, currentOpenness)]

\* ------------------------------------------------------------- face tracker

\* facesRef.current.find(face => face.id === faceIndex): the first such
\* record, or <<>> for undefined.
findExistingFace(ref, faceIndex) ==
    LET hits == {i \in 1..Len(ref) : ref[i].id = faceIndex}
    IN  IF hits = {} THEN <<>>
        ELSE <<ref[CHOOSE i \in hits : \A j \in hits : i <= j]>>

\* recordTime keeping the time stamp of the previous frame's record of a face
\* that is not moving.
recordTimeOfExisting(existingFace, isMoving, currentTime) ==
    IF existingFace # <<>> /\ ~isMoving THEN existingFace[1].lastUpdateTime ELSE currentTime

\* App.tsx:334  lastUpdateTime: currentTime.  existingFace is looked up and
\* not used.
recordTime(existingFace, isMoving, currentTime) == currentTime

\* updateFaceData: the record built and the openness map left.
updateFaceData(faceLandmarks, faceIndex, prev, ref, currentTime) ==
    LET existingFace == findExistingFace(ref, faceIndex)
        currentMouthOpenness == calculateMouthOpenness(faceLandmarks)
        detected == detectMouthMovement(prev, faceIndex, currentMouthOpenness)
    IN  [face |-> [id |-> faceIndex,
                   landmarks |-> faceLandmarks,
                   mouthOpenDistance |-> currentMouthOpenness,
                   isMovingMouth |-> detected.ret,
                   lastUpdateTime |-> recordTime(existingFace, detected.ret, currentTime)],
         prev |-> detected.prev]

\* newFaceList kept from the callback before.
newFaceListKept == faces

\* App.tsx:385  const updatedFaces: FaceData[] = []
newFaceList == <<>>

\* App.tsx:388-394: the forEach over multiFaceLandmarks from position index
\* (0-based) on; done is updatedFaces so far.
RECURSIVE buildFaces(_, _, _, _, _, _)
buildFaces(landmarkSets, index, done, prev, ref, currentTime) ==
    IF index >= Len(landmarkSets) THEN [faces |-> done, prev |-> prev]
    ELSE LET u == updateFaceData(landmarkSets[index + 1], index, prev, ref, currentTime)
         IN  buildFaces(landmarkSets, index + 1, Append(done, u.face), u.prev, ref,
                        currentTime)

\* --------------------------------------------------- active speaker selector

\* isCandidate without the timeout clause.
isCandidateMovingOnly(face, currentTime) == face.isMovingMouth

\* App.tsx:343-346: the filter's predicate.
isCandidate(face, currentTime) ==
    face.isMovingMouth \/ (currentTime - face.lastUpdateTime) < MOUTH_MOVEMENT_TIMEOUT

RECURSIVE filterFaces(_, _)
filterFaces(fs, currentTime) ==
    IF fs = <<>> THEN <<>>
    ELSE IF isCandidate(Head(fs), currentTime)
         THEN <<Head(fs)>> \o filterFaces(Tail(fs), currentTime)
         ELSE filterFaces(Tail(fs), currentTime)

\* compareFaces with the operands swapped: ascending order.
compareFacesAscending(a, b) == a.mouthOpenDistance - b.mouthOpenDistance

\* App.tsx:357-359: the comparator (a, b) => b.mouthOpenDistance -
\* a.mouthOpenDistance; negative puts a before b.
compareFaces(a, b) == b.mouthOpenDistance - a.mouthOpenDistance

\* Array.prototype.sort is stable: an element goes after every element it does
\* not have to precede.
RECURSIVE insertSorted(_, _)
insertSorted(sorted, face) ==
    IF sorted = <<>> THEN <<face>>
    ELSE IF compareFaces(face, Head(sorted)) < 0
         THEN <<face>> \o sorted
         ELSE <<Head(sorted)>> \o insertSorted(Tail(sorted), face)

RECURSIVE sortFaces(_, _)
sortFaces(fs, sorted) ==
    IF fs = <<>> THEN sorted
    ELSE sortFaces(Tail(fs), insertSorted(sorted, Head(fs)))

\* fallbackFace forgetting the active id when there is no face.
fallbackFaceFirstOrNone(updatedFaces, activeRef) ==
    IF Len(updatedFaces) = 0 THEN Null
    ELSE IF activeRef # Null THEN activeRef ELSE updatedFaces[1].id

\* App.tsx:348-354: no candidate.
fallbackFace(updatedFaces, activeRef) ==
    IF activeRef # Null THEN activeRef
    ELSE IF Len(updatedFaces) > 0 THEN updatedFaces[1].id ELSE Null

determineSpeakingFace(updatedFaces, activeRef, currentTime) ==
    LET movingFaces == filterFaces(updatedFaces, currentTime)
    IN  IF Len(movingFaces) = 0 THEN fallbackFace(updatedFaces, activeRef)
        ELSE sortFaces(movingFaces, <<>>)[1].id

\* ------------------------------------------------------- the 2-D context

\* The drawing state of a fresh CanvasRenderingContext2D.  x on the screen is
\* a * x + e (the transform's horizontal part; nothing scales or moves y);
\* line widths are in tenths of a pixel.
DefaultDrawingState ==
    [a |-> 1, e |-> 0, fillStyle |-> "#000000", strokeStyle |-> "#000000",
     lineWidth |-> 10, shadowColor |-> "rgba(0, 0, 0, 0)", shadowBlur |-> 0,
     font |-> "10px sans-serif", textAlign |-> "start", textBaseline |-> "alphabetic"]

\* A canvas of the given size with its context: the drawing state, the stack
\* of saved states, what has been painted on the surface since it was last
\* cleared, and (for the record only) the index of the FaceMeshRenderer call
\* that is painting.
FreshCanvas(width, height) ==
    [width |-> width, height |-> height, state |-> DefaultDrawingState, stack |-> <<>>,
     surface |-> <<>>, call |-> Null]

\* ctx.save()
save(c) == [c EXCEPT !.stack = Append(@, c.state)]

\* restore leaving the context as it is.
restoreSkipped(c) == c

\* ctx.restore(): nothing when no state is saved.
restore(c) ==
    IF c.stack = <<>> THEN c
    ELSE [c EXCEPT !.state = c.stack[Len(c.stack)],
                   !.stack = SubSeq(c.stack, 1, Len(c.stack) - 1)]

\* scale leaving the transform as it is.
scaleSkipped(c, sx) == c

\* ctx.scale(sx, 1)
scale(c, sx) == [c EXCEPT !.state.a = @ * sx]

\* ctx.translate(tx, 0)
translate(c, tx) == [c EXCEPT !.state.e = @ + c.state.a * tx]

\* clearRect leaving the surface as it is.
clearRectSkipped(c, x, w) == c

\* ctx.clearRect(x, 0, w, canvas.height): the surface is empty afterwards when
\* the rectangle, under the current transform, covers the canvas.
clearRect(c, x, w) ==
    LET x0 == c.state.a * x + c.state.e
        x1 == c.state.a * (x + w) + c.state.e
    IN  IF Min(x0, x1) <= 0 /\ c.width <= (IF x0 < x1 THEN x1 ELSE x0)
        THEN [c EXCEPT !.surface = <<>>]
        ELSE c

\* ctx.<property> = value
setProperty(c, property, value) == [c EXCEPT !.state = [@ EXCEPT ![property] = value]]

\* One painting operation put on the surface, with the drawing state it was
\* painted under.
paint(c, op, target, landmarks, x, y, w, h, text, style, lineWidth) ==
    [c EXCEPT !.surface = Append(@,
        [op |-> op, target |-> target, face |-> c.call, landmarks |-> landmarks,
         x |-> x, y |-> y, w |-> w, h |-> h, text |-> text,
         style |-> style, lineWidth |-> lineWidth,
         a |-> c.state.a, e |-> c.state.e,
         shadowColor |-> c.state.shadowColor, shadowBlur |-> c.state.shadowBlur,
         font |-> c.state.font])]

\* ctx.fill() of the current path (a shape at x, y of size w, h).
fill(c, target, x, y, w, h) ==
    paint(c, "fill", target, <<>>, x, y, w, h, <<>>, c.state.fillStyle, 0)

\* ctx.stroke() of the current path.
stroke(c, target, x, y, w, h) ==
    paint(c, "stroke", target, <<>>, x, y, w, h, <<>>, c.state.strokeStyle, c.state.lineWidth)

\* ctx.fillText(text, x, y)
fillText(c, text, x, y) ==
    paint(c, "fillText", "text", <<>>, x, y, 0, 0, text, c.state.fillStyle, 0)

\* window.drawConnectors(ctx, landmarks, connections, {color, lineWidth}) of
\* MediaPipe's drawing_utils: paints under the context's transform with its
\* own colour and line width and leaves the drawing state as it found it.
drawConnectors(c, landmarks, connections, color, lineWidth) ==
    paint(c, "drawConnectors", connections, landmarks, 0, 0, 0, 0, <<>>, color, lineWidth)

\* window.drawLandmarks(ctx, landmarks, {color, lineWidth, radius})
drawLandmarks(c, landmarks, color, lineWidth) ==
    paint(c, "drawLandmarks", "landmarks", landmarks, 0, 0, 0, 0, <<>>, color, lineWidth)

\* ctx.measureText(line).width under the caption font, for a line given as
\* its characters: the sum of the glyphs' advance widths (px).
charWidth(ch) == CASE ch = " " -> 4 [] ch = "i" -> 4 [] ch = "W" -> 15 [] OTHER -> 9

RECURSIVE measureText(_)
measureText(line) ==
    IF line = <<>> THEN 0 ELSE charWidth(Head(line)) + measureText(Tail(line))

\* --------------------------------------------------------------- wrapText

\* text.split(' ') of a text given as its characters: the words between the
\* spaces, empty ones included ("" gives one empty word).
RECURSIVE splitSpaces(_, _, _)
splitSpaces(text, words, word) ==
    IF text = <<>> THEN Append(words, word)
    ELSE IF Head(text) = " "
         THEN splitSpaces(Tail(text), Append(words, word), <<>>)
         ELSE splitSpaces(Tail(text), words, Append(word, Head(text)))

\* testLineOf putting no space between the line and the word.
testLineNoSpace(currentLine, word) == currentLine \o word

\* FaceMeshRenderer.tsx:39  currentLine ? `${currentLine} ${word}` : word
testLineOf(currentLine, word) ==
    IF currentLine # <<>> THEN currentLine \o <<" ">> \o word ELSE word

\* startsNewLine without the currentLine !== '' clause.
startsNewLineWhenWider(testLine, currentLine, maxWidth) == measureText(testLine) > maxWidth

\* FaceMeshRenderer.tsx:43  metrics.width > maxWidth && currentLine !== ''
startsNewLine(testLine, currentLine, maxWidth) ==
    measureText(testLine) > maxWidth /\ currentLine # <<>>

\* FaceMeshRenderer.tsx:37-54: the forEach over the words and the last push.
RECURSIVE wrapWords(_, _, _, _)
wrapWords(words, lines, currentLine, maxWidth) ==
    IF words = <<>>
    THEN IF currentLine # <<>> THEN Append(lines, currentLine) ELSE lines
    ELSE LET word == Head(words)
             testLine == testLineOf(currentLine, word)
         IN  IF startsNewLine(testLine, currentLine, maxWidth)
             THEN wrapWords(Tail(words), Append(lines, currentLine), word, maxWidth)
             ELSE wrapWords(Tail(words), lines, testLine, maxWidth)

\* wrapText(ctx, text, maxWidth), ctx being the context whose font
\* measureText measures under.
wrapText(text, maxWidth) == wrapWords(splitSpaces(text, <<>>, <<>>), <<>>, <<>>, maxWidth)

\* The characters of the texts wrapText is called with on its own: a letter,
\* a wide letter and the space.
WrapChars == {"a", "W", " "}

\* The widths it is called with (px): less than any letter; a letter with a
\* space; two letters with a space, exactly; and one more than a wide letter
\* and a letter with a space.
WrapWidths == {8, 13, 22, 29}

\* ------------------------------------------------------- FaceMeshRenderer

\* Caption texts of one to four words, each word of 17 wide letters (255 px
\* of the 260 a line holds), so that the k-th text wraps into k lines.
LongCaptionTexts ==
    <<"WWWWWWWWWWWWWWWWW",
      "WWWWWWWWWWWWWWWWW WWWWWWWWWWWWWWWWW",
      "WWWWWWWWWWWWWWWWW WWWWWWWWWWWWWWWWW WWWWWWWWWWWWWWWWW",
      "WWWWWWWWWWWWWWWWW WWWWWWWWWWWWWWWWW WWWWWWWWWWWWWWWWW WWWWWWWWWWWWWWWWW">>

\* The characters of the k-th of them.
RECURSIVE wideWords(_)
wideWords(k) ==
    IF k = 0 THEN <<>>
    ELSE (IF k = 1 THEN <<>> ELSE wideWords(k - 1) \o <<" ">>) \o [i \in 1..17 |-> "W"]

\* The characters of the caption texts of the model, and of the renderer's
\* placeholder.
charsOf(text) ==
    CASE text = "" -> <<>>
      [] \E k \in 1..Len(LongCaptionTexts) : text = LongCaptionTexts[k] ->
             wideWords(CHOOSE k \in 1..Len(LongCaptionTexts) : text = LongCaptionTexts[k])
      [] text = "hi" -> <<"h", "i">>
      [] text = "hi there" -> <<"h", "i", " ", "t", "h", "e", "r", "e">>
      [] text = "Speak to add captions..." ->
             <<"S", "p", "e", "a", "k", " ", "t", "o", " ", "a", "d", "d", " ", "c", "a",
             "p", "t", "i", "o", "n", "s", ".", ".", ".">>

\* FaceMeshRenderer.tsx:74-81
features == <<"FACEMESH_RIGHT_EYE", "FACEMESH_LEFT_EYE", "FACEMESH_RIGHT_EYEBROW",
              "FACEMESH_LEFT_EYEBROW", "FACEMESH_FACE_OVAL", "FACEMESH_LIPS">>

\* FaceMeshRenderer.tsx:83-88
RECURSIVE drawFeatures(_, _, _)
drawFeatures(c, landmarks, fs) ==
    IF fs = <<>> THEN c
    ELSE drawFeatures(drawConnectors(c, landmarks, Head(fs), "rgba(255,255,255,0.3)", 8),
                      landmarks, Tail(fs))

\* FaceMeshRenderer.tsx:12-26
drawSphere(c, x, y, radius, color) ==
    LET c1 == fill(setProperty(c, "fillStyle", color),
                   "sphere", x - radius, y - radius, 2 * radius, 2 * radius)
        c2 == setProperty(setProperty(c1, "strokeStyle", "white"), "lineWidth", 20)
    IN  stroke(c2, "sphere", x - radius, y - radius, 2 * radius, 2 * radius)

\* sphereColor the same for every face.
sphereColorActive(isActiveFace) == "#ADD8E6"

\* FaceMeshRenderer.tsx:102  isActiveFace ? '#ADD8E6' : '#AAAAAA'
sphereColor(isActiveFace) == IF isActiveFace THEN "#ADD8E6" ELSE "#AAAAAA"

\* FaceMeshRenderer.tsx:140-142
bubbleColor(isActiveFace) ==
    IF isActiveFace THEN "rgba(0, 132, 255, 0.85)" ELSE "rgba(0, 132, 255, 0.45)"

\* hasCaption for every face with a forehead, whatever the text.
hasCaptionAlways(forehead, cap) == forehead # <<>>

\* FaceMeshRenderer.tsx:106  forehead && caption.text
hasCaption(forehead, cap) == forehead # <<>> /\ cap.text # ""

\* FaceMeshRenderer.tsx:118  caption.text || 'Speak to add captions...'
displayText(cap) ==
    IF cap.text # "" THEN cap.text ELSE "Speak to add captions..."

\* FaceMeshRenderer.tsx:191-194: the forEach over textLines from index on.
RECURSIVE drawTextLines(_, _, _, _, _, _, _)
drawTextLines(c, textLines, index, x, y, verticalOffset, lineHeight) ==
    IF index >= Len(textLines) THEN c
    ELSE LET lineY == y - verticalOffset + (index * lineHeight) + (lineHeight \div 2) + 10
         IN  drawTextLines(fillText(c, textLines[index + 1], -x, lineY),
                           textLines, index + 1, x, y, verticalOffset, lineHeight)

\* textHeightOf without the padding.
textHeightUnpadded(lineHeight, numberOfLines) ==
    IF lineHeight * numberOfLines > 46 THEN lineHeight * numberOfLines ELSE 46

\* FaceMeshRenderer.tsx:129  Math.max(lineHeight * textLines.length + 20, 46)
textHeightOf(lineHeight, numberOfLines) ==
    IF lineHeight * numberOfLines + 20 > 46 THEN lineHeight * numberOfLines + 20 ELSE 46

\* FaceMeshRenderer.tsx:107-199: the caption bubble above the forehead (its
\* item on the surface is the rounded rectangle; the indicator triangle below
\* it is part of the same path).
drawCaption(c, forehead, canvasWidth, canvasHeight, cap, isActiveFace) ==
    LET x == (forehead.x * canvasWidth) \div 1000
        y == (forehead.y * canvasHeight) \div 1000
        c1 == setProperty(setProperty(setProperty(save(c),
                  "font", "16px Inter, system-ui, sans-serif"),
                  "textAlign", "center"), "textBaseline", "middle")
        maxBoxWidth == 300
        lineHeight == 20
        textLines == wrapText(charsOf(displayText(cap)), maxBoxWidth - 40)
        textWidth == maxBoxWidth
        textHeight == textHeightOf(lineHeight, Len(textLines))
        verticalOffset == textHeight + 50
        c2 == setProperty(setProperty(setProperty(c1,
                  "shadowColor", "rgba(0, 0, 0, 0.2)"), "shadowBlur", 8),
                  "fillStyle", bubbleColor(isActiveFace))
        c3 == fill(c2, "bubble", x - textWidth \div 2, y - verticalOffset,
                   textWidth, textHeight)
        glow == setProperty(setProperty(c3, "shadowColor",
                    IF isActiveFace THEN "rgba(255, 255, 255, 0.5)"
                                    ELSE "rgba(255, 255, 255, 0.3)"), "shadowBlur", 10)
        c4 == setProperty(setProperty(setProperty(glow,
                  "shadowBlur", 4), "shadowColor", "rgba(0, 0, 0, 0.4)"),
                  "fillStyle", IF isActiveFace THEN "gradient(rgba(255, 255, 255, 0.2))"
                                               ELSE "gradient(rgba(255, 255, 255, 0.15))")
        c5 == fill(c4, "highlight", x - textWidth \div 2, y - verticalOffset, textWidth, 20)
        c6 == setProperty(c5, "fillStyle",
                          IF isActiveFace THEN "white" ELSE "rgba(255, 255, 255, 0.8)")
        c7 == drawTextLines(scale(c6, -1), textLines, 0, x, y, verticalOffset, lineHeight)
    IN  restore(scale(c7, -1))

\* FaceMeshRenderer.tsx:59-201, painting on the canvas c.
FaceMeshRenderer(c, landmarks, canvasWidth, canvasHeight, cap, isActiveFace) ==
    LET c1 == drawConnectors(c, landmarks, "FACEMESH_TESSELATION", "rgba(255,255,255,0.08)", 5)
        c2 == drawFeatures(c1, landmarks, features)
        c3 == drawLandmarks(c2, landmarks, "rgba(255,255,255,0.2)", 5)
        forehead == IF 10 \in DOMAIN landmarks THEN <<landmarks[10]>> ELSE <<>>
        c4 == IF forehead # <<>>
              THEN drawSphere(c3, (forehead[1].x * canvasWidth) \div 1000,
                              (forehead[1].y * canvasHeight) \div 1000, 6,
                              sphereColor(isActiveFace))
              ELSE c3
    IN  IF hasCaption(forehead, cap)
        THEN drawCaption(c4, forehead[1], canvasWidth, canvasHeight, cap, isActiveFace)
        ELSE c4

\* ------------------------------------------------------- the state machine

appVars == <<caption, faceMeshCaption, activeFaceId>>

frameVars == <<previousMouthOpenness, faces, results, speakingFaceId, notified, rendered,
               canvas, callOrder>>

overlayVars == <<SpeechRecognition, isSpeechApiSupported, isListening, error, recognizers,
                 speechEvent>>

viewVars == <<showPermissionRequest, isLoading, cameraReady, lastError, isRunning,
              cdnAvailable, webcam, attempts, cameraRef, retryTimers, startEffectDeps>>

\* The texts the recognizer delivers.
CaptionTexts == {"hi", "hi there"}

\* The time from one detector callback to the next (ms): a frame that
\* follows at once, and a pause as long as the timeout.
FrameGaps == {ShortGap, MOUTH_MOVEMENT_TIMEOUT}

\* CaptionOverlay.tsx:68-71 after construction, in a browser with or without
\* the Speech API.
InitOverlay ==
    /\ SpeechRecognition \in BOOLEAN
    /\ isSpeechApiSupported = TRUE
    /\ isListening = FALSE
    /\ error = <<>>
    /\ recognizers = <<>>
    /\ speechEvent = [type |-> "none", recognizer |-> 0, error |-> "", seq |-> 0]

\* CaptionOverlay after a click on Start Listening in a browser with the
\* Speech API: one recognizer, started.
Listening ==
    /\ SpeechRecognition = TRUE
    /\ isSpeechApiSupported = TRUE
    /\ isListening = TRUE
    /\ error = <<>>
    /\ recognizers = <<[state |-> "started", isListening |-> FALSE]>>
    /\ speechEvent \in {[type |-> IF caption.text = "" THEN "none" ELSE "result",
                          recognizer |-> IF caption.text = "" THEN 0 ELSE 1, error |-> "",
                          seq |-> IF caption.text = "" THEN 0 ELSE 1]}

\* App.tsx:155-160 after construction and the first run of the effects: the
\* first check() found the libraries loaded or not (App.tsx:211-219), the
\* start effect started nothing while the permission request shows.
InitView ==
    /\ showPermissionRequest = TRUE
    /\ isLoading = FALSE
    /\ cameraReady = FALSE
    /\ lastError = <<>>
    /\ isRunning = FALSE
    /\ cdnAvailable \in BOOLEAN
    /\ webcam = "unmounted"
    /\ attempts = <<>>
    /\ cameraRef = 0
    /\ retryTimers = {}
    /\ startEffectDeps = <<TRUE, FALSE, FALSE>>

\* FaceMeshView after the access was requested, the webcam loaded, the start
\* effect called startFaceMesh and the camera started: one session, running.
Detecting ==
    /\ showPermissionRequest = FALSE
    /\ isLoading = FALSE
    /\ cameraReady = TRUE
    /\ lastError = <<>>
    /\ isRunning = TRUE
    /\ cdnAvailable = TRUE
    /\ webcam = "loaded"
    /\ attempts = <<[outcome |-> "started", stopped |-> FALSE]>>
    /\ cameraRef = 1
    /\ retryTimers = {}
    /\ startEffectDeps = <<FALSE, TRUE, TRUE>>

\* App and FaceMeshView after construction.
InitFrames ==
    /\ now = 0
    /\ caption = [text |-> "", timestamp |-> 0]
    /\ faceMeshCaption = [text |-> "", timestamp |-> 0]
    /\ activeFaceId = Null
    /\ latestCaptionRef = [text |-> "", timestamp |-> 0]
    /\ activeFaceIdRef = Null
    /\ previousMouthOpenness = <<>>
    /\ faces = <<>>
    /\ facesRef = <<>>
    /\ results = [image |-> "none"]
    /\ speakingFaceId = Null
    /\ notified = <<>>
    /\ rendered = <<>>
    /\ canvas = FreshCanvas(videoWidth, videoHeight)
    /\ callOrder = <<>>
    /\ wrapCall = [text |-> <<>>, maxWidth |-> 0, lines |-> <<>>, returned |-> FALSE]

\* The program after construction.
Init ==
    /\ InitFrames
    /\ InitOverlay
    /\ InitView

\* The program listening and detecting, before the first frame and the
\* first text.
InitListening ==
    /\ InitFrames
    /\ Listening
    /\ Detecting

\* ------------------------------------------------------------ the callback

\* renderFaces with the caption of the render that created the callback (the
\* initial one) instead of the one handed in.
renderFacesStaleCaption(landmarkSets, speaking, cap) ==
    [i \in 1..Len(landmarkSets) |->
        [index |-> i - 1,
         landmarks |-> landmarkSets[i],
         caption |-> [text |-> "", timestamp |-> 0],
         isActiveFace |-> (i - 1) = speaking]]

\* App.tsx:404-419: one FaceMeshRenderer call per landmark set.
renderFaces(landmarkSets, speaking, cap) ==
    [i \in 1..Len(landmarkSets) |->
        [index |-> i - 1,
         landmarks |-> landmarkSets[i],
         caption |-> cap,
         isActiveFace |-> (i - 1) = speaking]]

\* App.tsx:372-378: the canvas takes the video's size; setting canvas.width
\* or canvas.height resets the context and clears the surface.
matchVideoSize(c) ==
    IF c.width # videoWidth \/ c.height # videoHeight
    THEN FreshCanvas(videoWidth, videoHeight)
    ELSE c

\* App.tsx:380-383: the surface cleared and the context mirrored.
beginFrame(c) ==
    translate(scale(clearRect(save(c), 0, c.width), -1), -c.width)

\* App.tsx:406-418: FaceMeshRenderer for each of the calls, in order (each
\* call's canvas a value before the next call starts from it).
RECURSIVE paintFaces(_, _)
paintFaces(c, calls) ==
    IF calls = <<>> THEN c
    ELSE LET call == Head(calls)
         IN  CHOOSE done \in
                 {paintFaces(painted, Tail(calls)) :
                     painted \in {FaceMeshRenderer([c EXCEPT !.call = call.index],
                                                   call.landmarks, c.width, c.height,
                                                   call.caption, call.isActiveFace)}} : TRUE

\* App.tsx:424  ctx.restore(), the callback's last statement.
endFrame(c) == [restore(c) EXCEPT !.call = Null]

\* App.tsx:380-424: the calls of a callback with n landmark sets, in the
\* order the callback makes them.
callsInOrder(n, changed) ==
    <<"ctx.save", "ctx.clearRect", "ctx.scale", "ctx.translate">>
        \o [i \in 1..n |-> "updateFaceData"]
        \o <<"determineSpeakingFace">>
        \o (IF changed THEN <<"onActiveFaceChange">> ELSE <<>>)
        \o [i \in 1..n |-> "FaceMeshRenderer"]
        \o <<"setFaces", "ctx.restore">>

\* landmarkSetsOrNone falling back on the list of the callback before.
landmarkSetsOrLast(res) ==
    IF hasMultiFaceLandmarks(res) THEN res.multiFaceLandmarks
    ELSE IF hasMultiFaceLandmarks(results) THEN results.multiFaceLandmarks ELSE <<>>

\* App.tsx:388 and 405  if (results.multiFaceLandmarks) { ...forEach }: the
\* landmark sets the two loops go over, none when the field is absent.
landmarkSetsOrNone(res) ==
    IF hasMultiFaceLandmarks(res) THEN res.multiFaceLandmarks ELSE <<>>

\* App.tsx:400  speakingFaceId !== activeFaceIdRef.current
faceChanged(speaking, activeRef) == speaking # activeRef

\* onResults(res), the detector's callback, gap ms after the one before; its
\* selector reads the clock pass ms after the records were stamped.  (The
\* callback returns at once, changing nothing, while there is no canvas,
\* App.tsx:366-369, and the canvas is there while the permission request is
\* not; frames come from a camera that started and was not stopped.)
onResults(res, gap, pass) ==
    LET landmarkSets == landmarkSetsOrNone(res)
        currentTime == now + gap
    IN  /\ now + gap <= MaxNow
        /\ ~showPermissionRequest
        /\ \E i \in 1..Len(attempts) : attempts[i].outcome = "started" /\ ~attempts[i].stopped
        /\ \E built \in {buildFaces(landmarkSets, 0, newFaceList, previousMouthOpenness,
                                    facesRef, currentTime)} :
           \E speaking \in {determineSpeakingFace(built.faces, activeFaceIdRef,
                                                  currentTime + pass)} :
           \E changed \in {faceChanged(speaking, activeFaceIdRef)} :
           \E calls \in {renderFaces(landmarkSets, speaking, latestCaptionRef)} :
           \E painted \in {paintFaces(beginFrame(matchVideoSize(canvas)), calls)} :
            /\ now' = currentTime
            /\ results' = res
            /\ previousMouthOpenness' = built.prev
            /\ speakingFaceId' = speaking
            /\ notified' = IF changed THEN <<speaking>> ELSE <<>>
            /\ activeFaceId' = IF changed THEN speaking ELSE activeFaceId
            /\ rendered' = calls
            /\ canvas' = endFrame(painted)
            /\ callOrder' = callsInOrder(Len(landmarkSets), changed)
            /\ faces' = built.faces
            /\ UNCHANGED <<caption, faceMeshCaption, latestCaptionRef, activeFaceIdRef,
                           facesRef, wrapCall>>
            /\ UNCHANGED overlayVars
            /\ UNCHANGED viewVars

\* The callback on one of the results R.
OnResultsOf(R) ==
    \E res \in R, gap \in FrameGaps, pass \in {0, MaxPassMs} : onResults(res, gap, pass)

OnResults == OnResultsOf(DetectorResults)

OnCrowdResults == OnResultsOf(CrowdResults)

OnSoloResults == OnResultsOf(SoloResults)

OnPairResults == OnResultsOf(PairResults)

OnRenderResults == OnResultsOf(RenderResults)

OnMouthResults == OnResultsOf(MouthResults)

\* ---------------------------------------------------------- React's effects

\* CaptionOverlay.tsx:100-106: a started recognizer delivers a transcript to
\* onresult, which hands it to
\* App.tsx:90  onCaptionChange={(text) => setCaption({ text, timestamp: Date.now() })}
OnCaptionChange ==
    \E r \in 1..Len(recognizers), text \in CaptionTexts :
        /\ recognizers[r].state = "started"
        /\ caption' = [text |-> text, timestamp |-> now]
        /\ caption' # caption
        /\ speechEvent' = [type |-> "result", recognizer |-> r, error |-> "",
                           seq |-> 1 - speechEvent.seq]
        /\ UNCHANGED <<now, faceMeshCaption, activeFaceId, latestCaptionRef,
                       activeFaceIdRef, facesRef>>
        /\ UNCHANGED frameVars
        /\ UNCHANGED wrapCall
        /\ UNCHANGED <<SpeechRecognition, isSpeechApiSupported, isListening, error,
                       recognizers>>
        /\ UNCHANGED viewVars

\* App.tsx:59-61  useEffect(() => setFaceMeshCaption(caption), [caption])
FaceMeshCaptionEffect ==
    /\ faceMeshCaption # caption
    /\ faceMeshCaption' = caption
    /\ UNCHANGED <<now, caption, activeFaceId, latestCaptionRef, activeFaceIdRef, facesRef>>
    /\ UNCHANGED frameVars
    /\ UNCHANGED wrapCall
    /\ UNCHANGED overlayVars
    /\ UNCHANGED viewVars

\* App.tsx:200-202  useEffect(() => { latestCaptionRef.current = caption }, [caption])
LatestCaptionEffect ==
    /\ latestCaptionRef # faceMeshCaption
    /\ latestCaptionRef' = faceMeshCaption
    /\ UNCHANGED <<now, activeFaceIdRef, facesRef>>
    /\ UNCHANGED appVars
    /\ UNCHANGED frameVars
    /\ UNCHANGED wrapCall
    /\ UNCHANGED overlayVars
    /\ UNCHANGED viewVars

\* App.tsx:206-208  useEffect(() => { activeFaceIdRef.current = activeFaceId }, [activeFaceId])
ActiveFaceIdEffect ==
    /\ activeFaceIdRef # activeFaceId
    /\ activeFaceIdRef' = activeFaceId
    /\ UNCHANGED <<now, latestCaptionRef, facesRef>>
    /\ UNCHANGED appVars
    /\ UNCHANGED frameVars
    /\ UNCHANGED wrapCall
    /\ UNCHANGED overlayVars
    /\ UNCHANGED viewVars

\* App.tsx:168-170  useEffect(() => { facesRef.current = faces }, [faces])
FacesEffect ==
    /\ facesRef # faces
    /\ facesRef' = faces
    /\ UNCHANGED <<now, latestCaptionRef, activeFaceIdRef>>
    /\ UNCHANGED appVars
    /\ UNCHANGED frameVars
    /\ UNCHANGED wrapCall
    /\ UNCHANGED overlayVars
    /\ UNCHANGED viewVars

\* ------------------------------------------------------- CaptionOverlay

\* CaptionOverlay.tsx:77, 86
UnsupportedMessage ==
    "Speech recognition is not supported in this browser. Try Chrome, Edge, or Safari."

\* CaptionOverlay.tsx:132: the message when start() throws an error without one.
StartFailedMessage == "An error occurred while starting speech recognition"

\* The error codes the recognizer reports.
SpeechErrorCodes == {"not-allowed", "no-speech", "network"}

\* CaptionOverlay.tsx:114  `Speech recognition error: ${event.error}`
genericErrorMessage(code) ==
    CASE code = "not-allowed" -> "Speech recognition error: not-allowed"
      [] code = "no-speech" -> "Speech recognition error: no-speech"
      [] code = "network" -> "Speech recognition error: network"

\* errorMessageOf with the generic message for every code.
errorMessageAlwaysGeneric(code) == genericErrorMessage(code)

\* CaptionOverlay.tsx:110-115: the message onerror sets.
errorMessageOf(code) ==
    IF code = "not-allowed"
    THEN "Microphone access denied. Please allow microphone access and try again."
    ELSE genericErrorMessage(code)

\* recognitionRef.current: the last recognizer created (0 for null).
recognitionRef == Len(recognizers)

\* SpeechRecognition.start(): a recognizer that is listening or still ending
\* throws InvalidStateError and stays as it is.
start(rs, r) ==
    [rs EXCEPT ![r].state = IF @ \in {"idle", "ended"} THEN "started" ELSE @]

\* SpeechRecognition.stop(): a listening recognizer ends, its end event to
\* follow.
stop(rs, r) ==
    [rs EXCEPT ![r].state = IF @ = "started" THEN "stopping" ELSE @]

\* CaptionOverlay.tsx:138-140  if (recognitionRef.current) recognitionRef.current.stop()
stopRecognition(rs) == IF Len(rs) = 0 THEN rs ELSE stop(rs, Len(rs))

\* onend restarting whenever the component is listening now.
onendOfCurrentState(rs, r) ==
    LET ended == [rs EXCEPT ![r].state = "ended"]
    IN  IF isListening THEN start(ended, Len(ended)) ELSE ended

\* CaptionOverlay.tsx:120-125: onend of recognizer r, which closed over the
\* isListening of the render that created startListening.
onend(rs, r) ==
    LET ended == [rs EXCEPT ![r].state = "ended"]
    IN  IF rs[r].isListening THEN start(ended, Len(ended)) ELSE ended

\* CaptionOverlay.tsx:74-79: the effect after the first render.
SpeechApiCheckEffect ==
    /\ ~SpeechRecognition
    /\ isSpeechApiSupported
    /\ isSpeechApiSupported' = FALSE
    /\ error' = <<UnsupportedMessage>>
    /\ UNCHANGED <<SpeechRecognition, isListening, recognizers, speechEvent>>
    /\ UNCHANGED <<now, latestCaptionRef, activeFaceIdRef, facesRef, wrapCall>>
    /\ UNCHANGED appVars
    /\ UNCHANGED frameVars
    /\ UNCHANGED viewVars

\* CaptionOverlay.tsx:81-135: a click on the button while it reads Start
\* Listening (147-148); start() starts the new recognizer or throws.
StartListening ==
    /\ isSpeechApiSupported
    /\ ~isListening
    /\ IF ~SpeechRecognition
       THEN /\ error' = <<UnsupportedMessage>>
            /\ UNCHANGED <<isListening, recognizers>>
       ELSE /\ Len(recognizers) < MaxRecognizers
            /\ \E thrown \in BOOLEAN :
                   LET created == Append(recognizers,
                                         [state |-> "idle", isListening |-> isListening])
                   IN  IF thrown
                       THEN /\ recognizers' = created
                            /\ error' = <<StartFailedMessage>>
                            /\ isListening' = FALSE
                       ELSE /\ recognizers' = start(created, Len(created))
                            /\ error' = <<>>
                            /\ isListening' = TRUE
    /\ UNCHANGED <<SpeechRecognition, isSpeechApiSupported, speechEvent>>
    /\ UNCHANGED <<now, latestCaptionRef, activeFaceIdRef, facesRef, wrapCall>>
    /\ UNCHANGED appVars
    /\ UNCHANGED frameVars
    /\ UNCHANGED viewVars

\* CaptionOverlay.tsx:137-142: a click on the button while it reads Stop
\* Listening.
StopListening ==
    /\ isSpeechApiSupported
    /\ isListening
    /\ recognizers' = stopRecognition(recognizers)
    /\ isListening' = FALSE
    /\ UNCHANGED <<SpeechRecognition, isSpeechApiSupported, error, speechEvent>>
    /\ UNCHANGED <<now, latestCaptionRef, activeFaceIdRef, facesRef, wrapCall>>
    /\ UNCHANGED appVars
    /\ UNCHANGED frameVars
    /\ UNCHANGED viewVars

\* CaptionOverlay.tsx:108-117: a listening recognizer reports an error (its
\* end event follows); onerror sets the message and calls stopListening.
OnError ==
    \E r \in 1..Len(recognizers), code \in SpeechErrorCodes :
        /\ recognizers[r].state = "started"
        /\ error' = <<errorMessageOf(code)>>
        /\ recognizers' = stopRecognition(stop(recognizers, r))
        /\ isListening' = FALSE
        /\ speechEvent' = [type |-> "error", recognizer |-> r, error |-> code,
                           seq |-> 1 - speechEvent.seq]
        /\ UNCHANGED <<SpeechRecognition, isSpeechApiSupported>>
        /\ UNCHANGED <<now, latestCaptionRef, activeFaceIdRef, facesRef, wrapCall>>
        /\ UNCHANGED appVars
        /\ UNCHANGED frameVars
        /\ UNCHANGED viewVars

\* CaptionOverlay.tsx:119-125: a recognizer ends, after stop(), after an
\* error, or by itself (silence, the service's time limit).
OnEnd ==
    \E r \in 1..Len(recognizers) :
        /\ recognizers[r].state \in {"started", "stopping"}
        /\ recognizers' = onend(recognizers, r)
        /\ speechEvent' = [type |-> "end", recognizer |-> r, error |-> "",
                           seq |-> 1 - speechEvent.seq]
        /\ UNCHANGED <<SpeechRecognition, isSpeechApiSupported, isListening, error>>
        /\ UNCHANGED <<now, latestCaptionRef, activeFaceIdRef, facesRef, wrapCall>>
        /\ UNCHANGED appVars
        /\ UNCHANGED frameVars
        /\ UNCHANGED viewVars

\* ------------------------------------------- FaceMeshView: the sessions

\* What every step of this part leaves alone.
UnchangedByView ==
    /\ UNCHANGED <<now, latestCaptionRef, activeFaceIdRef, facesRef, wrapCall>>
    /\ UNCHANGED appVars
    /\ UNCHANGED frameVars
    /\ UNCHANGED overlayVars

\* App.tsx:430  throw new Error('MediaPipe not loaded yet')
NotLoadedMessage == "MediaPipe not loaded yet"

\* The message of the error a rejected camera start carries.
CameraStartMessage == "Could not start video source"

\* The messages of the webcam's errors: one that names the permission, one
\* that does not.
WebcamErrorMessages == {"Permission denied", "Error accessing camera"}

\* App.tsx:254  msg.toLowerCase().includes('permission')
includesPermission(msg) == msg = "Permission denied"

\* The dependencies of the start effect, App.tsx:482.
startEffectDepsNow == <<showPermissionRequest, cameraReady, isRunning>>

\* App.tsx:428: the guard of startFaceMesh.  The video and the canvas are
\* there while the permission request is not shown (App.tsx:498-500); isRunning
\* is the one the called startFaceMesh closed over.
passesGuard(closedOverIsRunning) ==
    /\ ~showPermissionRequest
    /\ ~closedOverIsRunning

\* App.tsx:427-469: startFaceMesh, created by a render with these isRunning
\* and cdnAvailable, up to its return: it gives up at the guard, fails on the
\* missing library, or creates a FaceMesh and a Camera and asks the camera
\* to start.
startFaceMesh(closedOverIsRunning, closedOverCdnAvailable) ==
    IF ~passesGuard(closedOverIsRunning)
    THEN UNCHANGED <<isLoading, lastError, attempts, cameraRef>>
    ELSE /\ Len(attempts) < MaxAttempts
         /\ IF ~closedOverCdnAvailable
            THEN /\ attempts' = Append(attempts, [outcome |-> "threw", stopped |-> FALSE])
                 /\ lastError' = <<NotLoadedMessage>>
                 /\ isLoading' = FALSE
                 /\ UNCHANGED cameraRef
            ELSE /\ attempts' = Append(attempts, [outcome |-> "starting", stopped |-> FALSE])
                 /\ cameraRef' = Len(attempts) + 1
                 /\ isLoading' = TRUE
                 /\ UNCHANGED lastError

\* App.tsx:471-475 without setIsRunning(false): cameraRef.current?.stop(),
\* faceMeshRef.current?.close().
stopSession(as, ref) ==
    IF ref = 0 THEN as ELSE [as EXCEPT ![ref].stopped = TRUE]

\* App.tsx:210-235: a later check() finds the three libraries loaded.
CheckCdn ==
    /\ ~cdnAvailable
    /\ cdnAvailable' = TRUE
    /\ UNCHANGED <<showPermissionRequest, isLoading, cameraReady, lastError, isRunning,
                   webcam, attempts, cameraRef, retryTimers, startEffectDeps>>
    /\ UnchangedByView

\* App.tsx:237-240: a click in CameraPermission; the Webcam is mounted and
\* asks for the camera.  (React runs the pending effects before it handles a
\* click.)
HandleRequestCameraAccess ==
    /\ startEffectDeps = startEffectDepsNow
    /\ showPermissionRequest
    /\ showPermissionRequest' = FALSE
    /\ isLoading' = TRUE
    /\ webcam' = "loading"
    /\ UNCHANGED <<cameraReady, lastError, isRunning, cdnAvailable, attempts, cameraRef,
                   retryTimers, startEffectDeps>>
    /\ UnchangedByView

\* App.tsx:242-245: onUserMedia.
HandleWebcamLoad ==
    /\ webcam = "loading"
    /\ webcam' = "loaded"
    /\ cameraReady' = TRUE
    /\ isLoading' = FALSE
    /\ UNCHANGED <<showPermissionRequest, lastError, isRunning, cdnAvailable, attempts,
                   cameraRef, retryTimers, startEffectDeps>>
    /\ UnchangedByView

\* App.tsx:247-260: onUserMediaError; with the permission request shown
\* again the Webcam is unmounted.
HandleWebcamError ==
    /\ webcam = "loading"
    /\ \E msg \in WebcamErrorMessages :
           /\ showPermissionRequest' = (includesPermission(msg) \/ showPermissionRequest)
           /\ webcam' = IF includesPermission(msg) THEN "unmounted" ELSE "failed"
           /\ lastError' = <<msg>>
    /\ isLoading' = FALSE
    /\ UNCHANGED <<cameraReady, isRunning, cdnAvailable, attempts, cameraRef, retryTimers,
                   startEffectDeps>>
    /\ UnchangedByView

\* App.tsx:478-482: the start effect, after a render that changed one of its
\* dependencies.
StartEffect ==
    /\ startEffectDeps # startEffectDepsNow
    /\ startEffectDeps' = startEffectDepsNow
    /\ IF ~showPermissionRequest /\ cameraReady /\ ~isRunning
       THEN startFaceMesh(isRunning, cdnAvailable)
       ELSE UNCHANGED <<isLoading, lastError, attempts, cameraRef>>
    /\ UNCHANGED <<showPermissionRequest, cameraReady, isRunning, cdnAvailable, webcam,
                   retryTimers>>
    /\ UnchangedByView

\* App.tsx:509-514: a click on Retry, which shows while lastError is set and
\* the permission request is not shown (App.tsx:498-506).
RetryClick ==
    /\ startEffectDeps = startEffectDepsNow
    /\ ~showPermissionRequest
    /\ lastError # <<>>
    /\ attempts' = stopSession(attempts, cameraRef)
    /\ isRunning' = FALSE
    /\ lastError' = <<>>
    /\ retryTimers' = retryTimers \cup {[isRunning |-> isRunning, cdnAvailable |-> cdnAvailable]}
    /\ UNCHANGED <<showPermissionRequest, isLoading, cameraReady, cdnAvailable, webcam,
                   cameraRef, startEffectDeps>>
    /\ UnchangedByView

\* App.tsx:512  setTimeout(startFaceMesh, 500): the timeout fires.
RetryTimeout ==
    /\ \E timer \in retryTimers :
           /\ retryTimers' = retryTimers \ {timer}
           /\ startFaceMesh(timer.isRunning, timer.cdnAvailable)
    /\ UNCHANGED <<showPermissionRequest, cameraReady, isRunning, cdnAvailable, webcam,
                   startEffectDeps>>
    /\ UnchangedByView

\* App.tsx:456-461: the promise of cameraRef.current.start() is fulfilled.
CameraStarted ==
    /\ \E i \in 1..Len(attempts) :
           /\ attempts[i].outcome = "starting"
           /\ attempts' = [attempts EXCEPT ![i].outcome = "started"]
    /\ isRunning' = TRUE
    /\ lastError' = <<>>
    /\ isLoading' = FALSE
    /\ UNCHANGED <<showPermissionRequest, cameraReady, cdnAvailable, webcam, cameraRef,
                   retryTimers, startEffectDeps>>
    /\ UnchangedByView

\* App.tsx:462-463: the promise is rejected.
CameraStartRejected ==
    /\ \E i \in 1..Len(attempts) :
           /\ attempts[i].outcome = "starting"
           /\ attempts' = [attempts EXCEPT ![i].outcome = "rejected"]
    /\ lastError' = <<CameraStartMessage>>
    /\ isLoading' = FALSE
    /\ UNCHANGED <<showPermissionRequest, cameraReady, isRunning, cdnAvailable, webcam,
                   cameraRef, retryTimers, startEffectDeps>>
    /\ UnchangedByView

\* The whole program.
Next ==
    \/ OnResults
    \/ OnCaptionChange
    \/ FaceMeshCaptionEffect
    \/ LatestCaptionEffect
    \/ ActiveFaceIdEffect
    \/ FacesEffect
    \/ SpeechApiCheckEffect
    \/ StartListening
    \/ StopListening
    \/ OnError
    \/ OnEnd
    \/ CheckCdn
    \/ HandleRequestCameraAccess
    \/ HandleWebcamLoad
    \/ HandleWebcamError
    \/ StartEffect
    \/ RetryClick
    \/ RetryTimeout
    \/ CameraStarted
    \/ CameraStartRejected

Spec == Init /\ [][Next]_vars

\* FaceMeshView's sessions, from construction in a browser with the Speech
\* API.
InitSessions ==
    /\ Init
    /\ SpeechRecognition

NextSessions ==
    \/ CheckCdn
    \/ HandleRequestCameraAccess
    \/ HandleWebcamLoad
    \/ HandleWebcamError
    \/ StartEffect
    \/ RetryClick
    \/ RetryTimeout
    \/ CameraStarted
    \/ CameraStartRejected

SpecSessions == InitSessions /\ [][NextSessions]_vars

\* CaptionOverlay and its recognizers, from construction.
NextSpeech ==
    \/ SpeechApiCheckEffect
    \/ StartListening
    \/ StopListening
    \/ OnCaptionChange
    \/ OnError
    \/ OnEnd

SpecSpeech == Init /\ [][NextSpeech]_vars

\* The tracker and the selector, with the active id's way back through App.
\* (facesRef, which updateFaceData looks into without using what it finds,
\* stays as it is.)
NextTracker ==
    \/ OnResults
    \/ ActiveFaceIdEffect

SpecTracker == InitListening /\ [][NextTracker]_vars

\* The same with as many faces as the detector delivers.
NextCrowd ==
    \/ OnCrowdResults
    \/ ActiveFaceIdEffect

SpecCrowd == InitListening /\ [][NextCrowd]_vars

\* The caption's way from the recognizer to the renderer.
NextCaption ==
    \/ OnSoloResults
    \/ OnCaptionChange
    \/ FaceMeshCaptionEffect
    \/ LatestCaptionEffect

SpecCaption == InitListening /\ [][NextCaption]_vars

\* The tracker with the effect that hands each callback's record list to the
\* next callback through facesRef.
NextFaces ==
    \/ OnPairResults
    \/ ActiveFaceIdEffect
    \/ FacesEffect

SpecFaces == InitListening /\ [][NextFaces]_vars

\* The overlay, from the states in which the recognizer has delivered no
\* text or one text before the first frame and both effects have handed it
\* on to latestCaptionRef: faces with and without the anchor, and the active
\* id on its way back.
InitRender ==
    /\ \E text \in {""} \cup CaptionTexts :
           /\ caption = [text |-> text, timestamp |-> 0]
           /\ faceMeshCaption = caption
           /\ latestCaptionRef = caption
    /\ now = 0
    /\ activeFaceId = Null
    /\ activeFaceIdRef = Null
    /\ previousMouthOpenness = <<>>
    /\ faces = <<>>
    /\ facesRef = <<>>
    /\ results = [image |-> "none"]
    /\ speakingFaceId = Null
    /\ notified = <<>>
    /\ rendered = <<>>
    /\ canvas = FreshCanvas(videoWidth, videoHeight)
    /\ callOrder = <<>>
    /\ wrapCall = [text |-> <<>>, maxWidth |-> 0, lines |-> <<>>, returned |-> FALSE]
    /\ Listening
    /\ Detecting

NextRender ==
    \/ OnRenderResults
    \/ ActiveFaceIdEffect

SpecRender == InitRender /\ [][NextRender]_vars

\* The bubble of one face, from the states in which one of the long texts has
\* reached latestCaptionRef before the first frame.
InitBubble ==
    /\ \E k \in 1..Len(LongCaptionTexts) :
           /\ caption = [text |-> LongCaptionTexts[k], timestamp |-> 0]
           /\ faceMeshCaption = caption
           /\ latestCaptionRef = caption
    /\ now = 0
    /\ activeFaceId = Null
    /\ activeFaceIdRef = Null
    /\ previousMouthOpenness = <<>>
    /\ faces = <<>>
    /\ facesRef = <<>>
    /\ results = [image |-> "none"]
    /\ speakingFaceId = Null
    /\ notified = <<>>
    /\ rendered = <<>>
    /\ canvas = FreshCanvas(videoWidth, videoHeight)
    /\ callOrder = <<>>
    /\ wrapCall = [text |-> <<>>, maxWidth |-> 0, lines |-> <<>>, returned |-> FALSE]
    /\ Listening
    /\ Detecting

NextBubble ==
    \/ OnSoloResults
    \/ ActiveFaceIdEffect

SpecBubble == InitBubble /\ [][NextBubble]_vars

\* The mouth analysis on landmark sets with missing and with several pairs.
NextMouth ==
    \/ OnMouthResults
    \/ ActiveFaceIdEffect

SpecMouth == InitListening /\ [][NextMouth]_vars

\* wrapText on its own: called once, with any text of at most MaxTextLen
\* characters and any of the widths.
InitWrap ==
    /\ wrapCall \in {[text |-> text, maxWidth |-> maxWidth, lines |-> <<>>, returned |-> FALSE] :
                        text \in SeqUpTo(WrapChars, MaxTextLen), maxWidth \in WrapWidths}
    /\ now = 0
    /\ caption = [text |-> "", timestamp |-> 0]
    /\ faceMeshCaption = [text |-> "", timestamp |-> 0]
    /\ activeFaceId = Null
    /\ latestCaptionRef = [text |-> "", timestamp |-> 0]
    /\ activeFaceIdRef = Null
    /\ previousMouthOpenness = <<>>
    /\ faces = <<>>
    /\ facesRef = <<>>
    /\ results = [image |-> "none"]
    /\ speakingFaceId = Null
    /\ notified = <<>>
    /\ rendered = <<>>
    /\ canvas = FreshCanvas(videoWidth, videoHeight)
    /\ callOrder = <<>>
    /\ Listening
    /\ Detecting

\* FaceMeshRenderer.tsx:28-57: the call returns.
WrapText ==
    /\ ~wrapCall.returned
    /\ wrapCall' = [wrapCall EXCEPT !.lines = wrapText(wrapCall.text, wrapCall.maxWidth),
                                    !.returned = TRUE]
    /\ UNCHANGED <<now, latestCaptionRef, activeFaceIdRef, facesRef>>
    /\ UNCHANGED appVars
    /\ UNCHANGED frameVars
    /\ UNCHANGED overlayVars
    /\ UNCHANGED viewVars

NextWrap == WrapText

SpecWrap == InitWrap /\ [][NextWrap]_vars

\* Only onResults reads the clock: a step that changes it is a callback.
CallbackStep == now' # now

\* -------------------------------------------------------------- properties

\* The landmark sets of the last callback's argument.
LandmarkSetsOf(res) == IF hasMultiFaceLandmarks(res) THEN res.multiFaceLandmarks ELSE <<>>

\* The id of the earliest record of fs among those of the largest
\* mouthOpenDistance (fs not empty).
FirstWidestId(fs) ==
    LET widest == {i \in 1..Len(fs) :
                      \A j \in 1..Len(fs) : fs[j].mouthOpenDistance <= fs[i].mouthOpenDistance}
    IN  fs[CHOOSE i \in widest : \A j \in widest : i <= j].id

\* C1: a callback emits onActiveFaceChange exactly when the id it selects
\* differs from the id the callback before it selected (none before the
\* first), whenever the effect that copies activeFaceId into activeFaceIdRef
\* runs.
C1_NotifiedIffSelectionChanged ==
    [][CallbackStep => ((notified' # <<>>) <=> (speakingFaceId' # speakingFaceId))]_vars

\* C2: when the selector's filtered set is not empty, the id selected is that
\* of the earliest record of the largest mouthOpenDistance in the filtered
\* set (whatever the selector's clock reading within the pass was).
C2_SelectsFirstWidest ==
    \A pass \in 0..MaxPassMs :
        LET movingFaces == filterFaces(faces, now + pass)
        IN  movingFaces # <<>> => speakingFaceId = FirstWidestId(movingFaces)

\* C2's case: two faces equally open, the other one active before, and the
\* earlier of the two selected.
C2_Witness ==
    /\ Len(faces) = 2
    /\ faces[1].mouthOpenDistance = faces[2].mouthOpenDistance
    /\ faces[1].mouthOpenDistance > 0
    /\ activeFaceIdRef = 1
    /\ speakingFaceId = 0

\* C3: for an id with a stored openness v1 (the 0 of a closed mouth
\* included), the next detectMouthMovement(id, v2) returns true exactly when
\* abs(v2 - v1) exceeds the threshold.
C3_MovingIffDifferenceAboveThreshold ==
    [][CallbackStep =>
        \A i \in 1..Len(faces') :
            (i - 1) \in DOMAIN previousMouthOpenness =>
                (faces'[i].isMovingMouth <=>
                    Abs(faces'[i].mouthOpenDistance - previousMouthOpenness[i - 1])
                        > MOUTH_MOVEMENT_THRESHOLD)]_vars

\* C4: for an id without an entry in the openness map, detectMouthMovement
\* returns false whatever the openness, and the map then holds that openness
\* for the id.
C4_FirstSightingNeverMoves ==
    [][CallbackStep =>
        \A i \in 1..Len(faces') :
            (i - 1) \notin DOMAIN previousMouthOpenness =>
                /\ ~faces'[i].isMovingMouth
                /\ (i - 1) \in DOMAIN previousMouthOpenness'
                /\ previousMouthOpenness'[i - 1]
                       = calculateMouthOpenness(LandmarkSetsOf(results')[i])]_vars

\* C4's case: the first callback of the session (no id has an entry before
\* it) saw two faces, the second with an open mouth.
C4_Witness ==
    /\ now = ShortGap
    /\ Len(faces) = 2
    /\ ~faces[2].isMovingMouth
    /\ previousMouthOpenness[1] = 8

\* C5: with no previous active id, a callback none of whose records is
\* moving selects the first record, whatever the records' openness.
C5_NoneMovingSelectsFirst ==
    [][CallbackStep =>
        ((/\ Len(faces') > 0
          /\ \A i \in 1..Len(faces') : ~faces'[i].isMovingMouth
          /\ activeFaceIdRef = Null)
            => speakingFaceId' = faces'[1].id)]_vars

\* C6: a callback with an empty record list selects the previous active id
\* (activeFaceIdRef.current, an id or none) and emits no notification.
C6_EmptyFrameKeepsActive ==
    [][(CallbackStep /\ Len(faces') = 0) =>
        (speakingFaceId' = activeFaceIdRef /\ notified' = <<>>)]_vars

\* C6's case: a callback with an empty landmark list after face 1 had become
\* the active one: 1 is selected again and nothing is emitted.
C6_Witness ==
    /\ hasMultiFaceLandmarks(results)
    /\ results.multiFaceLandmarks = <<>>
    /\ faces = <<>>
    /\ speakingFaceId = 1
    /\ notified = <<>>

\* fs with the isMovingMouth flags replaced by those of flags.
WithMovingFlags(fs, flags) ==
    [i \in 1..Len(fs) |-> [fs[i] EXCEPT !.isMovingMouth = flags[i]]]

C8_RendersMostRecentCaption ==
    [][CallbackStep =>
        \A i \in 1..Len(rendered') : rendered'[i].caption.text = caption.text]_vars

\* C8 as amended: every callback renders the snapshot latestCaptionRef holds,
\* which is the most recent caption update when no update is on its way
\* (caption = faceMeshCaption = latestCaptionRef), and never one newer than
\* faceMeshCaption's, itself never newer than caption's.
C8_RendersLatestPropagatedCaption ==
    [][/\ CallbackStep =>
            \A i \in 1..Len(rendered') :
                /\ rendered'[i].caption = latestCaptionRef
                /\ (caption = faceMeshCaption /\ faceMeshCaption = latestCaptionRef)
                       => rendered'[i].caption.text = caption.text
       /\ latestCaptionRef'.timestamp <= faceMeshCaption'.timestamp
       /\ faceMeshCaption'.timestamp <= caption'.timestamp]_vars

\* C8's case: a face rendered with "hi" while the update to "hi there" is
\* still on its way.
C8_Witness ==
    /\ Len(rendered) = 1
    /\ rendered[1].caption.text = "hi"
    /\ caption.text = "hi there"
    /\ latestCaptionRef.text = "hi"

\* C9: no key of the openness map is ever removed; after a callback the keys
\* are those before it and the ids of its faces; a key of the callback holds
\* the openness computed in it and every other key keeps its value; and there
\* are never more keys than maxNumFaces.
C9_OpennessMapKeys ==
    [][/\ DOMAIN previousMouthOpenness \subseteq DOMAIN previousMouthOpenness'
       /\ Cardinality(DOMAIN previousMouthOpenness') <= maxNumFaces
       /\ IF CallbackStep
          THEN /\ DOMAIN previousMouthOpenness'
                      = DOMAIN previousMouthOpenness \cup {i - 1 : i \in 1..Len(faces')}
               /\ \A k \in DOMAIN previousMouthOpenness' :
                      previousMouthOpenness'[k] =
                          IF k < Len(faces')
                          THEN calculateMouthOpenness(LandmarkSetsOf(results')[k + 1])
                          ELSE previousMouthOpenness[k]
          ELSE previousMouthOpenness' = previousMouthOpenness]_vars

\* C9's case: four keys, the last callback with one face only: key 0 holds
\* its openness, key 3 that of an earlier callback.
C9_Witness ==
    /\ Cardinality(DOMAIN previousMouthOpenness) = maxNumFaces
    /\ Len(faces) = 1
    /\ faces[1].mouthOpenDistance = 8
    /\ previousMouthOpenness[0] = 8
    /\ previousMouthOpenness[maxNumFaces - 1] = 5

\* C10: the record list of a callback with n landmark sets has n records,
\* the record at position i (from 0) has id i and is built from the i-th
\* landmark set in this callback (its openness, this callback's time stamp).
C10_RecordsRebuiltInOrder ==
    LET landmarkSets == LandmarkSetsOf(results)
    IN  /\ Len(faces) = Len(landmarkSets)
        /\ \A i \in 1..Len(faces) :
               /\ faces[i].id = i - 1
               /\ faces[i].landmarks = landmarkSets[i]
               /\ faces[i].mouthOpenDistance = calculateMouthOpenness(landmarkSets[i])
               /\ faces[i].lastUpdateTime = now

\* C10's case: a callback with one face after one with two.
C10_Witness ==
    /\ DOMAIN previousMouthOpenness = {0, 1}
    /\ Len(faces) = 1
    /\ faces[1].id = 0

\* Record lists facesRef could hold instead: none, the list not yet copied
\* into it, its own records with other time stamps and flags, and its
\* records in reverse order.
OtherFaceLists ==
    {<<>>, faces,
     [i \in 1..Len(facesRef) |->
         [facesRef[i] EXCEPT !.lastUpdateTime = 0, !.isMovingMouth = ~@,
                             !.mouthOpenDistance = @ + MOUTH_MOVEMENT_THRESHOLD + 1]],
     [i \in 1..Len(facesRef) |-> facesRef[Len(facesRef) + 1 - i]]}

\* C11: the records, the openness map, the id selected and the notification
\* of a callback are those the same callback produces with any other record
\* list in facesRef: they depend on the landmark sets, the openness map and
\* activeFaceIdRef only.
C11_IndependentOfFacesRef ==
    [][CallbackStep =>
        \A ref \in OtherFaceLists :
            LET built == buildFaces(LandmarkSetsOf(results'), 0, newFaceList,
                                    previousMouthOpenness, ref, now')
            IN  /\ faces' = built.faces
                /\ previousMouthOpenness' = built.prev
                /\ \E pass \in 0..MaxPassMs :
                       LET speaking == determineSpeakingFace(built.faces, activeFaceIdRef,
                                                             now' + pass)
                       IN  /\ speakingFaceId' = speaking
                           /\ notified' = IF faceChanged(speaking, activeFaceIdRef)
                                          THEN <<speaking>> ELSE <<>>]_vars

\* C11's case: a callback found in facesRef an older record of a face it
\* sees again, the face not moving, and stamped the new record with its own
\* time.
C11_Witness ==
    /\ Len(facesRef) = 2
    /\ Len(faces) = 2
    /\ facesRef[2].lastUpdateTime < now
    /\ facesRef[2].mouthOpenDistance # faces[2].mouthOpenDistance
    /\ ~faces[1].isMovingMouth
    /\ faces[1].lastUpdateTime = now

\* The items on the surface that the FaceMeshRenderer call for face i painted.
PaintedFor(i) == SelectSeq(canvas.surface, LAMBDA item : item.face = i)

\* The items whose look tells the active face from the others: the marker's
\* disc and the bubble.
IsMarker(item) == item.target = "sphere" /\ item.op = "fill"

IsBubble(item) == item.target = "bubble"

ActiveStyles == {"#ADD8E6", "rgba(0, 132, 255, 0.85)"}

MutedStyles == {"#AAAAAA", "rgba(0, 132, 255, 0.45)"}

\* Face i has a marker or a bubble in one of the styles.
DrawnIn(i, styles) ==
    \E k \in 1..Len(canvas.surface) :
        LET item == canvas.surface[k]
        IN  item.face = i /\ (IsMarker(item) \/ IsBubble(item)) /\ item.style \in styles

C13_AbsentListAsEmptyList ==
    [][(CallbackStep /\ (~hasMultiFaceLandmarks(results') \/ results'.multiFaceLandmarks = <<>>))
        => /\ faces' = <<>>
           /\ speakingFaceId' = activeFaceIdRef
           /\ notified' = <<>>
           /\ activeFaceId' = activeFaceId
           /\ previousMouthOpenness' = previousMouthOpenness
           /\ rendered' = <<>>
           /\ canvas'.surface = <<>>]_vars

\* C13's case: a callback without the list after a callback with two faces,
\* the second of them the active one.
C13_Witness ==
    /\ results = [image |-> "frame"]
    /\ DOMAIN previousMouthOpenness = {0, 1}
    /\ activeFaceIdRef = 1
    /\ speakingFaceId = 1
    /\ faces = <<>>
    /\ canvas.surface = <<>>

\* The pairs of configured lip indices both landmarks of which exist.
FullPairs(landmarks) ==
    {<<upperLipPoints[i], lowerLipPoints[i]>> : i \in 1..Len(upperLipPoints)}
        \cap ((DOMAIN landmarks) \X (DOMAIN landmarks))

\* The Euclidean distance of p and q, when it is on the grid.
ExactDistance(p, q) ==
    CHOOSE d \in 0..1000 :
        d * d = (p.x - q.x) * (p.x - q.x) + (p.y - q.y) * (p.y - q.y)
                    + (p.z - q.z) * (p.z - q.z)

RECURSIVE SumOfPairDistances(_, _)
SumOfPairDistances(landmarks, pairs) ==
    IF pairs = {} THEN 0
    ELSE LET pair == CHOOSE pr \in pairs : TRUE
         IN  ExactDistance(landmarks[pair[1]], landmarks[pair[2]])
                 + SumOfPairDistances(landmarks, pairs \ {pair})

\* C14: the openness of every record is the sum of the distances of the
\* fully present lip pairs divided by their number (the landmark sets of
\* SpecMouth keep the quotient on the grid), 0 when there is no such pair,
\* never negative, and 0 when the landmarks of every present pair coincide;
\* a pair with a missing landmark counts neither in the sum nor in the number.
C14_OpennessIsMeanOfPresentPairs ==
    \A i \in 1..Len(faces) :
        LET landmarks == faces[i].landmarks
            pairs == FullPairs(landmarks)
            openness == faces[i].mouthOpenDistance
        IN  /\ openness >= 0
            /\ pairs = {} => openness = 0
            /\ pairs # {} =>
                   openness * Cardinality(pairs) = SumOfPairDistances(landmarks, pairs)
            /\ (\A pair \in pairs : landmarks[pair[1]] = landmarks[pair[2]]) => openness = 0

\* C14's case: two pairs 4 and 6 apart and two pairs with a missing lower
\* landmark: the openness is 5.
C14_Witness ==
    /\ Len(faces) = 1
    /\ DOMAIN faces[1].landmarks = {0, 10, 13, 14, 17}
    /\ Cardinality(FullPairs(faces[1].landmarks)) = 2
    /\ faces[1].mouthOpenDistance = 5

\* The lines joined with single spaces.
RECURSIVE JoinLines(_)
JoinLines(lines) ==
    IF lines = <<>> THEN <<>>
    ELSE IF Len(lines) = 1 THEN lines[1]
    ELSE lines[1] \o <<" ">> \o JoinLines(Tail(lines))

\* The words of a text: its longest runs of characters other than the space.
RECURSIVE WordsIn(_)
WordsIn(text) ==
    IF text = <<>> THEN <<>>
    ELSE IF text[1] = " " THEN WordsIn(Tail(text))
    ELSE LET ends == {n \in 1..Len(text) :
                         /\ \A k \in 1..n : text[k] # " "
                         /\ n = Len(text) \/ text[n + 1] = " "}
             n == CHOOSE m \in ends : TRUE
         IN  <<SubSeq(text, 1, n)>> \o WordsIn(SubSeq(text, n + 1, Len(text)))

\* The words of the lines, line after line.
RECURSIVE WordsInLines(_)
WordsInLines(lines) ==
    IF lines = <<>> THEN <<>> ELSE WordsIn(lines[1]) \o WordsInLines(Tail(lines))

\* The text has a space at its start or end, or two spaces in a row.
HasStraySpace(text) ==
    /\ text # <<>>
    /\ \/ text[1] = " "
       \/ text[Len(text)] = " "
       \/ \E k \in 1..(Len(text) - 1) : text[k] = " " /\ text[k + 1] = " "

\* C15 as claimed: for every text and width, the lines hold the text's words,
\* unsplit and in order, and joined with single spaces they are the text.
C15_JoinReproducesEveryText ==
    wrapCall.returned =>
        /\ WordsInLines(wrapCall.lines) = WordsIn(wrapCall.text)
        /\ JoinLines(wrapCall.lines) = wrapCall.text

\* C15 as amended: for every text and width, the lines hold the text's
\* words, unsplit and in order; joined with single spaces they are the text
\* when the text has no space at its start or end and no two spaces in a row.
C15_JoinReproducesSingleSpacedText ==
    wrapCall.returned =>
        /\ WordsInLines(wrapCall.lines) = WordsIn(wrapCall.text)
        /\ ~HasStraySpace(wrapCall.text) => JoinLines(wrapCall.lines) = wrapCall.text

\* C15's case: three words wrapped into two lines.
C15_Witness ==
    /\ wrapCall.returned
    /\ wrapCall.text = <<"a", " ", "W", " ", "a">>
    /\ wrapCall.lines = <<<<"a", " ", "W">>, <<"a">>>>

\* C16: every line wrapText returns fits the width or is one word; no line is
\* empty; and a line was closed only because the next word would not fit
\* after it, so the lines are closed exactly when appending the next word
\* would exceed the width and the line is not empty.
C16_LinesFitOrSingleWord ==
    wrapCall.returned =>
        LET lines == wrapCall.lines
        IN  /\ \A k \in 1..Len(lines) :
                   /\ lines[k] # <<>>
                   /\ \/ measureText(lines[k]) <= wrapCall.maxWidth
                      \/ \A j \in 1..Len(lines[k]) : lines[k][j] # " "
            /\ \A k \in 1..(Len(lines) - 1) :
                   measureText(lines[k] \o <<" ">> \o WordsIn(lines[k + 1])[1])
                       > wrapCall.maxWidth

\* C16's case: a word wider than the width on a line of its own, the next
\* word on the next line.
C16_Witness ==
    /\ wrapCall.returned
    /\ wrapCall.lines = <<<<"W">>, <<"a">>>>
    /\ measureText(<<"W">>) > wrapCall.maxWidth
    /\ measureText(<<"a">>) <= wrapCall.maxWidth

\* Face i has an item of the kind on the surface.
HasItem(i, Kind(_)) ==
    \E k \in 1..Len(canvas.surface) : canvas.surface[k].face = i /\ Kind(canvas.surface[k])

\* C17: in every frame a face with the anchor landmark has its marker, and
\* its bubble exactly when the caption text handed to the renderer is not
\* empty, whether the face is the active one or not; a face without the
\* anchor landmark has neither marker nor bubble.
C17_BubbleForEveryAnchoredFace ==
    \A i \in 1..Len(rendered) :
        LET hasAnchor == 10 \in DOMAIN rendered[i].landmarks
            hasText == rendered[i].caption.text # ""
        IN  /\ (hasAnchor /\ hasText) => HasItem(i - 1, IsBubble)
            /\ ~hasText => ~HasItem(i - 1, IsBubble)
            /\ hasAnchor => HasItem(i - 1, IsMarker)
            /\ ~hasAnchor => (~HasItem(i - 1, IsMarker) /\ ~HasItem(i - 1, IsBubble))

\* C17's case: a frame with text and two faces with the anchor: the face
\* that is not the active one has its bubble as well.
C17_Witness ==
    /\ Len(rendered) = 2
    /\ rendered[1].caption.text = "hi there"
    /\ rendered[1].isActiveFace
    /\ ~rendered[2].isActiveFace
    /\ HasItem(0, IsBubble)
    /\ HasItem(1, IsBubble)

\* The positions of the call named in the order of calls.
PositionsOf(order, name) == {k \in 1..Len(order) : order[k] = name}

\* Every position of P is before every position of Q.
AllBefore(P, Q) == \A p \in P, q \in Q : p < q

PaintedAfresh(call) ==
    FaceMeshRenderer([beginFrame(FreshCanvas(videoWidth, videoHeight))
                          EXCEPT !.call = call.index],
                     call.landmarks, videoWidth, videoHeight, call.caption,
                     call.isActiveFace).surface

\* C19: what a callback paints for a face is what the renderer paints for
\* the same landmark set, caption and active flag on a fresh canvas: the same
\* operations with the same arguments under the same drawing state, whatever
\* the callbacks and the faces before it left.
C19_PaintingDependsOnInputsOnly ==
    [][CallbackStep =>
        \A i \in 1..Len(rendered') :
            SelectSeq(canvas'.surface, LAMBDA item : item.face = i - 1)
                = PaintedAfresh(rendered'[i])]_vars

\* C19's case: the third callback or a later one, with two faces and their
\* bubbles, the second face painted after the first one's text.
C19_Witness ==
    /\ now > ShortGap + ShortGap
    /\ Len(rendered) = 2
    /\ rendered[2].caption.text = "hi"
    /\ HasItem(0, LAMBDA item : item.op = "fillText")
    /\ HasItem(1, IsBubble)

\* C20: everything but the text is painted under the mirrored transform
\* (x on the screen is width - x) and the text lines under the transform
\* flipped back, centred where the bubble is; FaceMeshRenderer returns with
\* the transform and the stack of saved states it was called with, with a
\* caption or without; and the callback returns with those it started with.
C20_TextCounterMirroredAndTransformRestored ==
    [][CallbackStep =>
        /\ \A k \in 1..Len(canvas'.surface) :
               LET item == canvas'.surface[k]
               IN  /\ item.e = canvas'.width
                   /\ item.a = IF item.op = "fillText" THEN 1 ELSE -1
                   /\ item.op = "fillText" =>
                          LET forehead == rendered'[item.face + 1].landmarks[10]
                          IN  item.a * item.x + item.e
                                  = canvas'.width - (forehead.x * canvas'.width) \div 1000
        /\ \A i \in 1..Len(rendered') :
               LET before == [beginFrame(canvas) EXCEPT !.call = i - 1]
                   after == FaceMeshRenderer(before, rendered'[i].landmarks, before.width,
                                             before.height, rendered'[i].caption,
                                             rendered'[i].isActiveFace)
               IN  /\ after.state.a = before.state.a
                   /\ after.state.e = before.state.e
                   /\ after.stack = before.stack
                   /\ before.state.a = -1
        /\ canvas'.state.a = canvas.state.a
        /\ canvas'.state.e = canvas.state.e
        /\ canvas'.stack = canvas.stack]_vars

\* C20's case: the first face's text under the transform flipped back, the
\* second face's mesh, painted after it, mirrored, and the context's
\* transform after the callback the identity.
C20_Witness ==
    /\ Len(rendered) = 2
    /\ HasItem(0, LAMBDA item : item.op = "fillText" /\ item.a = 1)
    /\ HasItem(1, LAMBDA item : item.op = "drawConnectors" /\ item.a = -1)
    /\ ~HasItem(1, IsMarker)
    /\ canvas.state.a = 1
    /\ canvas.state.e = 0

\* The larger of two numbers.
Larger(m, n) == IF m < n THEN n ELSE m

\* C21: a bubble with n text lines (n >= 1) is Larger(20 * n + 20, 46) pixels
\* high; that is never below 46 and not below the height for fewer lines;
\* and the line of index k (from 0) is centred top + 20 * k + 20 pixels from
\* the bubble's top edge, inside the bubble.
C21_BubbleHeightAndLineCentres ==
    \A i \in 1..Len(rendered) :
        LET painted == PaintedFor(i - 1)
            bubbles == SelectSeq(painted, IsBubble)
            texts == SelectSeq(painted, LAMBDA item : item.op = "fillText")
            n == Len(texts)
        IN  \A b \in 1..Len(bubbles) :
                LET top == bubbles[b].y
                    height == bubbles[b].h
                IN  /\ n >= 1
                    /\ height = Larger(20 * n + 20, 46)
                    /\ height >= 46
                    /\ \A m \in 1..n : textHeightOf(20, m) <= height
                    /\ \A k \in 1..n :
                           /\ texts[k].y = top + 20 * (k - 1) + 20
                           /\ top <= texts[k].y
                           /\ texts[k].y <= top + height

\* C21's case: a bubble of three lines, 80 pixels high.
C21_Witness ==
    /\ Len(rendered) = 1
    /\ Len(SelectSeq(canvas.surface, LAMBDA item : item.op = "fillText")) = 3
    /\ HasItem(0, LAMBDA item : IsBubble(item) /\ item.h = 80)

C23_ActiveIdNeverBackToNull ==
    [][/\ \A i \in 1..Len(notified') : notified'[i] # Null
       /\ activeFaceId # Null => activeFaceId' # Null
       /\ activeFaceIdRef # Null => activeFaceIdRef' # Null]_vars

\* C23's case: a callback without faces after the active id became a face id.
C23_Witness ==
    /\ now > 0
    /\ Len(LandmarkSetsOf(results)) = 0
    /\ activeFaceId # Null
    /\ activeFaceIdRef = activeFaceId
    /\ speakingFaceId = activeFaceId
    /\ notified = <<>>

\* A step in which a recognizer delivered an event of the type.
SpeechEventStep(type) ==
    /\ speechEvent'.seq # speechEvent.seq
    /\ speechEvent'.type = type

\* C24: when the current recognizer ends while isListening is true (after
\* startListening, before stopListening and before an error), it is started
\* again and the component keeps listening.
C24_RestartedWhileListening ==
    [][(/\ SpeechEventStep("end")
        /\ speechEvent'.recognizer = recognitionRef
        /\ isListening)
       => (/\ isListening'
           /\ recognizers'[recognitionRef].state = "started")]_vars

\* C26: after an error event no recognizer the event concerns is listening
\* (the one that reported it, the one in recognitionRef), isListening is
\* false and error is the microphone-denied message for "not-allowed" and
\* "Speech recognition error: " with the code for any other code, never
\* empty; and in a browser without the Speech API nothing ever listens,
\* isListening stays false, and a call of startListening leaves the
\* unsupported-browser message in error.
C26_ErrorStopsAndReports ==
    [][/\ SpeechEventStep("error") =>
            /\ recognizers'[speechEvent'.recognizer].state # "started"
            /\ recognizers'[Len(recognizers')].state # "started"
            /\ ~isListening'
            /\ Len(error') = 1
            /\ error'[1] # ""
            /\ speechEvent'.error = "not-allowed" =>
                   error'[1] = "Microphone access denied. Please allow microphone access and try again."
            /\ speechEvent'.error = "no-speech" =>
                   error'[1] = "Speech recognition error: no-speech"
            /\ speechEvent'.error = "network" =>
                   error'[1] = "Speech recognition error: network"
       /\ ~SpeechRecognition =>
            /\ ~isListening'
            /\ recognizers' = <<>>
            /\ error' # error => error' = <<UnsupportedMessage>>]_vars

\* C26's case: the recognizer reported "not-allowed" while listening.
C26_Witness ==
    /\ speechEvent.type = "error"
    /\ speechEvent.error = "not-allowed"
    /\ ~isListening
    /\ recognizers[speechEvent.recognizer].state = "stopping"
    /\ error = <<errorMessageOf("not-allowed")>>

\* The sessions (a FaceMesh with its Camera) that are starting or running and
\* were not stopped.
LiveSessions ==
    {i \in 1..Len(attempts) : attempts[i].outcome \in {"starting", "started"}
                              /\ ~attempts[i].stopped}

\* C25: at any time at most one session is starting or running and not
\* stopped, however the calls of startFaceMesh (start effect, Retry timeout),
\* the permission request and stopFaceMesh interleave.
C25_AtMostOneLiveSession == Cardinality(LiveSessions) <= 1

\* A step in which a startFaceMesh call that passed the guard ends in a
\* failure: it threw, or its camera start was rejected.
AttemptFails ==
    \/ /\ Len(attempts') = Len(attempts) + 1
       /\ attempts'[Len(attempts')].outcome = "threw"
    \/ \E i \in 1..Len(attempts) :
           attempts[i].outcome = "starting" /\ attempts'[i].outcome = "rejected"

\* A step in which the camera of an attempt started.
AttemptSucceeds ==
    \E i \in 1..Len(attempts) :
        attempts[i].outcome = "starting" /\ attempts'[i].outcome = "started"

\* C27: a failing attempt ends with isLoading false, lastError set and
\* isRunning false, and starts nothing more (no timer, no session, the start
\* effect's dependencies as they were); a successful one ends with isLoading
\* false, isRunning true and lastError cleared.
C27_AttemptOutcome ==
    [][/\ AttemptFails =>
            /\ ~isLoading'
            /\ lastError' # <<>>
            /\ ~isRunning'
            /\ startEffectDepsNow' = startEffectDepsNow
            /\ retryTimers' \subseteq retryTimers
            /\ LiveSessions' \subseteq LiveSessions
       /\ AttemptSucceeds =>
            /\ ~isLoading'
            /\ isRunning'
            /\ lastError' = <<>>]_vars

====
